---- MODULE Spec2Model ----
(***************************************************************************)
(* Generation-job subsystem of the higgsfield backend: idempotent job      *)
(* creation (Orchestrator.create_job behind POST /options/{id}/generate),  *)
(* the Celery poll task (_poll_generation_async) run by several worker     *)
(* processes against one job table, the provider adapter's classification  *)
(* of upstream answers, and the delayed tick queue.                        *)
(*                                                                         *)
(* Time is in milliseconds.  A worker's ORM object is a private copy of    *)
(* the row; db.commit() issues an UPDATE of the attributes whose value     *)
(* differs from the loaded one, over whatever the row holds by then.       *)
(***************************************************************************)
EXTENDS Integers, Sequences, FiniteSets, Bags, TLC

\* ----------------------------------------------------------------- bounds

\* Worker processes consuming the tick queue in parallel.
NumWorkers == 2
\* POST /options/{id}/generate calls issued over a run.
MaxRequests == 2
\* The clock advances in whole seconds up to this horizon (seconds).
MaxClockS == 2
\* Ticks the environment adds for a job beyond its first: broker
\* redeliveries (the queue is at-least-once) plus generate replays.
MaxExtraTicks == 1
\* settings.T2I_TIMEOUT_S / T2V_TIMEOUT_S / I2V_TIMEOUT_S are environment
\* settings; the model runs a configuration with short timeouts so that a
\* job's deadline falls inside the horizon.
T2I_TIMEOUT_S == 2
T2V_TIMEOUT_S == 3
I2V_TIMEOUT_S == 3
\* Largest attempt number, min_ms and max_ms given to next_interval_ms.
MaxAttempt == 6
MaxMinMs == 4
MaxMaxMs == 6
\* Latest time, in half seconds, of a GET of a job and of its next_poll_at.
MaxHalfS == 24
\* SSE connections opened over a run.
NumClients == 3
\* asyncio.Queue(maxsize=100) in SSEBroker.subscribe, scaled down so that a
\* slow subscriber's queue fills inside a run.
QUEUE_MAXSIZE == 2

\* -------------------------------------------------------------- constants

POLL_MIN_INTERVAL_MS == 1000
POLL_MAX_INTERVAL_MS == 30000
\* settings.POLL_JITTER = 0.2, as a percentage.
POLL_JITTER_PCT == 20
\* Milliseconds per second (timedelta(seconds=..), countdown seconds).
MsPerS == 1000

MaxClockMs == MaxClockS * MsPerS

Workers == 1..NumWorkers
Clients == 1..NumClients
Requests == 1..MaxRequests

\* Python's None, for numeric and for text columns.
NoneInt == 0 - 1
NoneStr == "None"

Min(a, b) == IF a < b THEN a ELSE b
Max(a, b) == IF a > b THEN a ELSE b

\* security.get_current_user_id: the demo stub returns one fixed user.
get_current_user_id == "U1"

\* The options table: finalized options the core reads and never writes.
Options == [O1 |-> [tool_type |-> "text_to_image"]]
OptionIds == DOMAIN Options

\* Idempotency-Key header values sent by clients.
IdempotencyKeys == {"K1", "K2"}

\* ------------------------------------------------------------ job statuses

PENDING == "PENDING"
RUNNING == "RUNNING"
SUCCEEDED == "SUCCEEDED"
FAILED == "FAILED"
TIMEOUT == "TIMEOUT"
CANCELED == "CANCELED"

\* A terminal set that leaves out CANCELED.
TERMINAL_STATUSES_NoCanceled == {SUCCEEDED, FAILED, TIMEOUT}

TERMINAL_STATUSES == {SUCCEEDED, FAILED, TIMEOUT, CANCELED}

\* A row of generation_jobs (the columns the core reads or writes).  The
\* same shape serves as a worker's ORM object.
NoRow ==
    [ option_id |-> NoneStr, user_id |-> NoneStr, idempotency_key |-> NoneStr,
      status |-> NoneStr, provider_job_set_id |-> NoneInt, progress |-> NoneInt,
      attempts |-> 0, last_error_code |-> NoneStr, last_error_message |-> NoneStr,
      last_polled_at |-> NoneInt, next_poll_at |-> NoneInt, timeout_at |-> NoneInt,
      started_at |-> NoneInt, finished_at |-> NoneInt, output_urls |-> <<>> ]

Columns == DOMAIN NoRow

\* Orchestrator._get_timeout_seconds
get_timeout_seconds(tool_type) ==
    CASE tool_type = "text_to_image" -> T2I_TIMEOUT_S
      [] tool_type = "text_to_video" -> T2V_TIMEOUT_S
      [] tool_type = "image_to_video" -> I2V_TIMEOUT_S
      [] tool_type = "speak" -> T2I_TIMEOUT_S
      [] OTHER -> T2V_TIMEOUT_S

\* The timeouts of config.py as configured, in seconds.
settings == [T2I_TIMEOUT_S |-> 180, I2V_TIMEOUT_S |-> 1200, T2V_TIMEOUT_S |-> 1200]

\* The `timeouts` dict of _get_timeout_seconds and its default, over the
\* settings `s`.
timeouts(s, tool_type) ==
    CASE tool_type = "text_to_image" -> s.T2I_TIMEOUT_S
      [] tool_type = "text_to_video" -> s.T2V_TIMEOUT_S
      [] tool_type = "image_to_video" -> s.I2V_TIMEOUT_S
      [] tool_type = "speak" -> s.T2I_TIMEOUT_S
      [] OTHER -> s.T2V_TIMEOUT_S

\* A job built without a deadline.
NewJob_NoDeadline(user_id, option_id, idempotency_key, now) ==
    [ NoRow EXCEPT
        !.option_id = option_id,
        !.user_id = user_id,
        !.idempotency_key = idempotency_key,
        !.status = PENDING,
        !.next_poll_at = now ]

\* GenerationJob(...) as Orchestrator.create_job builds it at time `now`.
NewJob(user_id, option_id, idempotency_key, now) ==
    [ NoRow EXCEPT
        !.option_id = option_id,
        !.user_id = user_id,
        !.idempotency_key = idempotency_key,
        !.status = PENDING,
        !.timeout_at = now + get_timeout_seconds(Options[option_id].tool_type) * MsPerS,
        !.next_poll_at = now ]

\* ---------------------------------------------------------------- state

VARIABLES
    clock,        \* datetime.utcnow(), in ms
    jobs,         \* committed generation_jobs rows, by job id
    reqs,         \* the generate requests: handler position and locals
    queue,        \* the broker's delayed queue: a bag of ticks [job_id, eta]
    workers,      \* the poll task instances: position and ORM object
    published,    \* bag of events handed to SSEBroker.publish
    nextSetId,    \* the provider's next fresh job-set id
    redelivered,  \* number of extra deliveries so far
    fatal,        \* jobs for which a tick committed FAILED on a non-retryable error
    options,      \* ids of the rows of the options table
    subscribers,  \* SSEBroker._subscribers: channel -> list of queues
    queues,       \* the asyncio.Queue objects made by subscribe, by queue id
    clients,      \* the SSE connections: position of event_generator
    call          \* a call of a function or read-only handler: inputs and result

jobVars == <<clock, jobs, reqs, queue, workers, published, nextSetId, redelivered, fatal,
            options>>

sseVars == <<subscribers, queues, clients>>

vars == <<jobVars, sseVars, call>>

\* No call is recorded.
NoCall == [fn |-> "none"]

\* An SSE connection whose event_generator has not run yet.
NewClient ==
    [ pc |-> "new", channel |-> <<>>, queue |-> NoneInt, event |-> [type |-> "none"] ]

IdleRequest ==
    [ pc |-> "idle", option_id |-> NoneStr, key |-> NoneStr, job_id |-> NoneInt,
      row |-> NoRow, status_code |-> 0, detail |-> NoneStr ]

IdleWorker ==
    [ pc |-> "idle", job_id |-> NoneInt, now |-> NoneInt, orig |-> NoRow,
      job |-> NoRow, called |-> "none", e |-> "none", kind |-> "none",
      delay_seconds |-> NoneInt, option |-> NoneStr ]

Init ==
    /\ clock = 0
    /\ jobs = <<>>
    /\ reqs = [r \in Requests |-> IdleRequest]
    /\ queue = EmptyBag
    /\ workers = [w \in Workers |-> IdleWorker]
    /\ published = EmptyBag
    /\ nextSetId = 1
    /\ redelivered = 0
    /\ fatal = {}
    /\ options = OptionIds
    /\ subscribers = <<>>
    /\ queues = <<>>
    /\ clients = [c \in Clients |-> NewClient]
    /\ call = NoCall

\* A tick: poll_generation.apply_async(args=[job_id], countdown=delay) at the
\* current clock.  An eta beyond the horizon is delivered at the horizon.
Tick(job_id, delay_seconds) ==
    [ job_id |-> job_id, eta |-> Min(clock + delay_seconds * MsPerS, MaxClockMs) ]

Enqueue(q, job_id, delay_seconds) == q (+) SetToBag({Tick(job_id, delay_seconds)})

\* ------------------------------------------ POST /options/{id}/generate

\* A lookup that sees only jobs still in progress.
ExistingJobs_ActiveOnly(user_id, option_id, idempotency_key) ==
    { j \in DOMAIN jobs :
        /\ jobs[j].user_id = user_id
        /\ jobs[j].option_id = option_id
        /\ jobs[j].idempotency_key = idempotency_key
        /\ jobs[j].status \notin TERMINAL_STATUSES }

\* The committed job matching the unique key, as a set of ids (at most one).
ExistingJobs(user_id, option_id, idempotency_key) ==
    { j \in DOMAIN jobs :
        /\ jobs[j].user_id = user_id
        /\ jobs[j].option_id = option_id
        /\ jobs[j].idempotency_key = idempotency_key }

\* The unique index on (user_id, option_id, idempotency_key): the committed
\* rows an INSERT of `row` collides with.
ix_jobs_user_option_idem(row) ==
    { j \in DOMAIN jobs :
        /\ jobs[j].user_id = row.user_id
        /\ jobs[j].option_id = row.option_id
        /\ jobs[j].idempotency_key = row.idempotency_key }

\* Rows inserted by a flush and not yet committed, by other requests.
UncommittedInserts(r) ==
    { r2 \in Requests \ {r} : reqs[r2].pc = "commit" }

\* Requests that found the job already there (each enqueues one more tick).
Replays ==
    { r \in Requests : reqs[r].pc \in {"enqueue", "done"}
                         /\ reqs[r].job_id \notin {r, NoneInt} }

ExtraTicks == redelivered + Cardinality(Replays)

\* The handler up to create_job's flush: the option check, the existence
\* lookup and, on a miss, the new GenerationJob object.
GenerateBegin(r, option_id, key) ==
    /\ reqs[r].pc = "idle"
    /\ \A r2 \in Requests : r2 < r => reqs[r2].pc # "idle"
    /\ option_id \in options
    /\ LET existing == ExistingJobs(get_current_user_id, option_id, key) IN
       IF existing # {}
       THEN reqs' = [reqs EXCEPT ![r] =
                [@ EXCEPT !.pc = "enqueue", !.option_id = option_id, !.key = key,
                          !.job_id = CHOOSE j \in existing : TRUE,
                          !.row = jobs[CHOOSE j \in existing : TRUE]]]
       ELSE reqs' = [reqs EXCEPT ![r] =
                [@ EXCEPT !.pc = "flush", !.option_id = option_id, !.key = key,
                          !.job_id = r,
                          !.row = NewJob(get_current_user_id, option_id, key, clock)]]
    /\ UNCHANGED <<call, sseVars, options, clock, jobs, queue, workers, published, nextSetId,
                   redelivered, fatal>>

\* db.add(job); await db.flush(): the INSERT.  It waits while another
\* transaction holds an uncommitted row with the same unique key, and raises
\* IntegrityError (the request ends 500) when a committed one exists.
CreateJobFlush(r) ==
    /\ reqs[r].pc = "flush"
    /\ \A r2 \in UncommittedInserts(r) :
          ~ ( /\ reqs[r2].row.user_id = reqs[r].row.user_id
              /\ reqs[r2].row.option_id = reqs[r].row.option_id
              /\ reqs[r2].row.idempotency_key = reqs[r].row.idempotency_key )
    /\ IF ix_jobs_user_option_idem(reqs[r].row) # {}
       THEN reqs' = [reqs EXCEPT ![r] =
                [@ EXCEPT !.pc = "done", !.job_id = NoneInt, !.row = NoRow,
                          !.status_code = 500]]
       ELSE reqs' = [reqs EXCEPT ![r].pc = "commit"]
    /\ UNCHANGED <<call, sseVars, options, clock, jobs, queue, workers, published, nextSetId,
                   redelivered, fatal>>

\* await db.commit() in generate_option: the inserted row becomes visible.
GenerateCommit(r) ==
    /\ reqs[r].pc = "commit"
    /\ jobs' = [j \in DOMAIN jobs \cup {reqs[r].job_id} |->
                   IF j = reqs[r].job_id THEN reqs[r].row ELSE jobs[j]]
    /\ reqs' = [reqs EXCEPT ![r] = [@ EXCEPT !.pc = "enqueue", !.row = NoRow]]
    /\ UNCHANGED <<call, sseVars, options, clock, queue, workers, published, nextSetId, redelivered, fatal>>

\* poll_generation.delay(str(job_id)); return JobCreateResponse (202).
GenerateEnqueue(r) ==
    /\ reqs[r].pc = "enqueue"
    /\ queue' = Enqueue(queue, reqs[r].job_id, 0)
    /\ reqs' = [reqs EXCEPT ![r] = [@ EXCEPT !.pc = "done", !.status_code = 202]]
    /\ UNCHANGED <<call, sseVars, options, clock, jobs, workers, published, nextSetId, redelivered, fatal>>

\* ------------------------------------------------------ provider adapter

\* An adapter whose errors are all fatal.
Raised_NeverRetryable(exc, code, retryable, message) ==
    [ exc |-> IF exc = "Exception" THEN exc ELSE "ProviderError", code |-> code,
      retryable |-> FALSE, message |-> message,
      job_set_id |-> NoneInt, status |-> NoneStr, results |-> <<>> ]

\* ProviderError and its subclasses, as the poll task's except clauses see
\* them: exc is the class the handler matches first.
Raised(exc, code, retryable, message) ==
    [ exc |-> exc, code |-> code, retryable |-> retryable, message |-> message,
      job_set_id |-> NoneInt, status |-> NoneStr, results |-> <<>> ]

Returned(job_set_id, status, results) ==
    [ exc |-> "none", code |-> NoneStr, retryable |-> FALSE, message |-> NoneStr,
      job_set_id |-> job_set_id, status |-> status, results |-> results ]

\* HiggsfieldProvider.start_generation on the upstream answer `resp`.
start_generation(resp) ==
    IF resp.transport = "error"
    THEN Raised("ProviderError", "NETWORK_ERROR", TRUE, "Network error")
    ELSE IF resp.status_code = 429
    THEN Raised("RateLimitError", "RATE_LIMITED", TRUE, "Rate limited by provider")
    ELSE IF resp.status_code = 400
    THEN Raised("ProviderError", "INVALID_PARAMS", FALSE, "Invalid params")
    ELSE IF resp.status_code >= 500
    THEN Raised("ProviderError", "PROVIDER_SERVER_ERROR", TRUE, "Provider server error")
    ELSE IF resp.status_code # 200
    THEN Raised("ProviderError", "PROVIDER_ERROR", FALSE, "Provider error")
    ELSE IF resp.body = "not_json"
    THEN Raised("Exception", NoneStr, FALSE, "JSONDecodeError")
    ELSE IF resp.job_set_id = NoneInt
    THEN Raised("ProviderError", "INVALID_RESPONSE", FALSE, "No job_set_id in response")
    ELSE Returned(resp.job_set_id, NoneStr, <<>>)

\* str.lower() on the upstream status labels the model sends.
Lower(label) ==
    CASE label = "COMPLETED" -> "completed"
      [] label = "Failed" -> "failed"
      [] OTHER -> label

\* A map that takes an unknown label for a failure.
status_map_UnknownFails(status) ==
    CASE status \in {"queued", "pending"} -> "queued"
      [] status \in {"processing", "running", "in_progress"} -> "processing"
      [] status \in {"completed", "succeeded", "success"} -> "completed"
      [] OTHER -> "failed"

\* status_map.get(status, "queued")
status_map(status) ==
    CASE status \in {"queued", "pending"} -> "queued"
      [] status \in {"processing", "running", "in_progress"} -> "processing"
      [] status \in {"completed", "succeeded", "success"} -> "completed"
      [] status \in {"failed", "error"} -> "failed"
      [] OTHER -> "queued"

\* `a or b` on strings that may be None or empty.
OrElse(a, b) == IF a # NoneStr /\ a # "" THEN a ELSE b

NormalizeResult(r) ==
    [ type |-> IF r.type = NoneStr THEN "image" ELSE r.type,
      min_url |-> OrElse(OrElse(r.min_url, r.thumbnail_url), r.url),
      raw_url |-> OrElse(r.raw_url, r.url) ]

\* HiggsfieldProvider._normalize_job_set
normalize_job_set(data) ==
    LET normalized_status == status_map(Lower(data.status))
        raw_results == IF data.results # <<>> THEN data.results ELSE data.outputs
    IN  [ status |-> normalized_status,
          results |-> IF normalized_status = "completed"
                      THEN [i \in DOMAIN raw_results |-> NormalizeResult(raw_results[i])]
                      ELSE <<>> ]

\* HiggsfieldProvider.get_job_set on the upstream answer `resp`.
get_job_set(resp) ==
    IF resp.transport = "error"
    THEN Raised("ProviderError", "NETWORK_ERROR", TRUE, "Network error")
    ELSE IF resp.status_code = 429
    THEN Raised("RateLimitError", "RATE_LIMITED", TRUE, "Rate limited by provider")
    ELSE IF resp.status_code >= 500
    THEN Raised("ProviderError", "PROVIDER_SERVER_ERROR", TRUE, "Provider server error")
    ELSE IF resp.status_code = 404
    THEN Raised("ProviderError", "JOB_NOT_FOUND", FALSE, "Job set not found")
    ELSE IF resp.status_code # 200
    THEN Raised("ProviderError", "PROVIDER_ERROR", FALSE, "Provider error")
    ELSE IF resp.body = "not_json"
    THEN Raised("Exception", NoneStr, FALSE, "JSONDecodeError")
    ELSE LET n == normalize_job_set(resp.data)
         IN  Returned(NoneInt, n.status, n.results)

\* ------------------------------------------- upstream answers (inputs)

HttpStatusCodes == {200, 400, 404, 429, 500}

NoData == [status |-> "", results |-> <<>>, outputs |-> <<>>]

\* Answers to POST /v1/models/{model_key}/generate; a 200 carries the fresh
\* job-set id `fresh` unless the body lacks it.
StartResponses(fresh) ==
    { [transport |-> "error", status_code |-> 0, body |-> "json", job_set_id |-> NoneInt] }
    \cup { [transport |-> "ok", status_code |-> c, body |-> "json", job_set_id |-> NoneInt] :
              c \in HttpStatusCodes }
    \cup { [transport |-> "ok", status_code |-> 200, body |-> b, job_set_id |-> fresh] :
              b \in {"json", "not_json"} }

RawResult ==
    [type |-> "image", min_url |-> "m.jpg", raw_url |-> "r.jpg",
     thumbnail_url |-> NoneStr, url |-> NoneStr]

\* A second result, as the provider lists it after the first.
OtherResult ==
    [type |-> "video", min_url |-> NoneStr, raw_url |-> NoneStr,
     thumbnail_url |-> "t.jpg", url |-> "v.mp4"]

UpstreamLabels == {"queued", "running", "completed", "COMPLETED", "error", "weird", ""}

\* Answers to GET /v1/job-sets/{id}.
PollResponses ==
    { [transport |-> "error", status_code |-> 0, body |-> "json", data |-> NoData] }
    \cup { [transport |-> "ok", status_code |-> c, body |-> "json", data |-> NoData] :
              c \in HttpStatusCodes \ {200} }
    \cup { [transport |-> "ok", status_code |-> 200, body |-> "not_json", data |-> NoData] }
    \cup { [transport |-> "ok", status_code |-> 200, body |-> "json",
            data |-> [status |-> l, results |-> rs, outputs |-> <<>>]] :
              l \in UpstreamLabels,
              rs \in {<<>>, <<RawResult>>, <<RawResult, OtherResult>>} }

\* ------------------------------------------------------------- poll task

\* random.uniform(-jitter_range, jitter_range), drawn at its two ends, as a
\* multiple of jitter_range.
JitterDraws == {0 - 1, 1}

\* next_interval_ms with the draw `u` (in units of jitter_range).
next_interval_ms(attempt, min_ms, max_ms, jitter_pct, u) ==
    LET base == min_ms * (2 ^ attempt)
        capped == Min(base, max_ms)
        jitter_range == capped * jitter_pct    \* in 1/100 ms
    IN  (capped * 100 + u * jitter_range) \div 100    \* int() of a positive float

\* int(x / 1000) for x >= 0 in ms.
WholeSeconds(ms) == ms \div MsPerS

\* The UPDATE db.commit() issues: the attributes of the ORM object `job`
\* whose value differs from the loaded one (`orig`), written over `current`.
Flush(current, orig, job) ==
    [c \in Columns |-> IF job[c] # orig[c] THEN job[c] ELSE current[c]]

\* sse_broker.publish(f"chat:{job.user_id}", {"type": "job.updated", ...})
JobUpdated(job_id, job) ==
    [ channel |-> <<"chat", job.user_id>>, type |-> "job.updated",
      job_id |-> job_id, status |-> job.status ]

Deliverable == { t \in BagToSet(queue) : t.eta <= clock }

\* A rate-limit clause that backs off like any other retryable error.
OnRateLimitError_NoPenalty(me, e, u) ==
    LET backoff_ms == next_interval_ms(me.job.attempts, POLL_MIN_INTERVAL_MS,
                                       POLL_MAX_INTERVAL_MS, POLL_JITTER_PCT, u)
    IN  [me EXCEPT !.pc = "commit", !.kind = "rate_limited",
                   !.job.last_error_code = e.code,
                   !.job.last_error_message = e.message,
                   !.job.next_poll_at = me.now + backoff_ms,
                   !.delay_seconds = Max(1, WholeSeconds(backoff_ms))]

\* except RateLimitError, lines 272-289.
OnRateLimitError(me, e, u) ==
    LET backoff_ms == next_interval_ms(me.job.attempts + 5, POLL_MIN_INTERVAL_MS,
                                       POLL_MAX_INTERVAL_MS, POLL_JITTER_PCT, u)
    IN  [me EXCEPT !.pc = "commit", !.kind = "rate_limited",
                   !.job.last_error_code = e.code,
                   !.job.last_error_message = e.message,
                   !.job.next_poll_at = me.now + backoff_ms,
                   !.delay_seconds = Max(1, WholeSeconds(backoff_ms))]

\* The except clauses, lines 272-351, on the exception `e` with draw `u`.
OnException(caught, e, u) ==
    LET now == caught.now
        me == [caught EXCEPT !.e = IF e.exc = "Exception" THEN "Exception" ELSE e.code]
    IN
    IF e.exc = "RateLimitError"
    THEN OnRateLimitError(me, e, u)
    ELSE IF e.exc = "ProviderError"
    THEN IF e.retryable
         THEN LET backoff_ms == next_interval_ms(me.job.attempts, POLL_MIN_INTERVAL_MS,
                                                 POLL_MAX_INTERVAL_MS, POLL_JITTER_PCT, u)
              IN  [me EXCEPT !.pc = "commit", !.kind = "retryable",
                             !.job.last_error_code = e.code,
                             !.job.last_error_message = e.message,
                             !.job.next_poll_at = now + backoff_ms,
                             !.delay_seconds = Max(1, WholeSeconds(backoff_ms))]
         ELSE [me EXCEPT !.pc = "commit", !.kind = "non_retryable",
                         !.job.last_error_code = e.code,
                         !.job.last_error_message = e.message,
                         !.job.status = FAILED,
                         !.job.finished_at = now]
    ELSE LET backoff_ms == next_interval_ms(me.job.attempts, POLL_MIN_INTERVAL_MS,
                                            POLL_MAX_INTERVAL_MS, POLL_JITTER_PCT, u)
         IN  [me EXCEPT !.pc = "commit", !.kind = "internal_error",
                        !.job.last_error_code = "INTERNAL_ERROR",
                        !.job.last_error_message = e.message,
                        !.job.next_poll_at = now + backoff_ms,
                        !.delay_seconds = Max(1, WholeSeconds(backoff_ms))]

\* A start that gives the job a new deadline, counted from the start.
OnStarted_NewDeadline(me, r, u) ==
    LET now == me.now
        next_poll_at == now + next_interval_ms(0, POLL_MIN_INTERVAL_MS,
                                               POLL_MAX_INTERVAL_MS, POLL_JITTER_PCT, u)
    IN  [me EXCEPT !.pc = "commit", !.kind = "started",
                   !.job.provider_job_set_id = r.job_set_id,
                   !.job.next_poll_at = next_poll_at,
                   !.job.timeout_at = now + (me.orig.timeout_at - me.orig.next_poll_at),
                   !.delay_seconds = Max(1, WholeSeconds(next_poll_at - now))]

\* Lines 138-152: the provider answers StartGeneration.
OnStarted(me, r, u) ==
    LET now == me.now
        next_poll_at == now + next_interval_ms(0, POLL_MIN_INTERVAL_MS,
                                               POLL_MAX_INTERVAL_MS, POLL_JITTER_PCT, u)
    IN  [me EXCEPT !.pc = "commit", !.kind = "started",
                   !.job.provider_job_set_id = r.job_set_id,
                   !.job.next_poll_at = next_poll_at,
                   !.delay_seconds = Max(1, WholeSeconds(next_poll_at - now))]

\* A choice of the last of the results.
First_Last(results) == results[Len(results)]

\* results[0]
First(results) == results[1]

\* A poll that is not counted.
Polled_Uncounted(me) == [me EXCEPT !.job.last_polled_at = me.now]

\* Lines 181-182: job.last_polled_at = now; job.attempts += 1
Polled(me) ==
    [me EXCEPT !.job.last_polled_at = me.now, !.job.attempts = me.job.attempts + 1]

\* Lines 180-270: the provider answers GetJobSet with the normalized `r`.
OnPolled(me, r, u) ==
    LET now == me.now
        polled == Polled(me)
    IN  IF r.status = "completed"
        THEN [polled EXCEPT !.pc = "commit", !.kind = "completed",
                            !.job.status = SUCCEEDED,
                            !.job.finished_at = now,
                            !.job.progress = 100,
                            !.job.output_urls =
                                IF r.results # <<>>
                                THEN <<First(r.results)>>
                                ELSE polled.job.output_urls]
        ELSE IF r.status = "failed"
        THEN [polled EXCEPT !.pc = "commit", !.kind = "failed",
                            !.job.status = FAILED,
                            !.job.finished_at = now,
                            !.job.last_error_code = "PROVIDER_FAILED",
                            !.job.last_error_message = "Provider reported failure"]
        ELSE LET interval_ms == next_interval_ms(polled.job.attempts,
                                    POLL_MIN_INTERVAL_MS, POLL_MAX_INTERVAL_MS,
                                    POLL_JITTER_PCT, u)
             IN  [polled EXCEPT !.pc = "commit", !.kind = "still_processing",
                                !.job.next_poll_at = now + interval_ms,
                                !.delay_seconds = Max(1, WholeSeconds(interval_ms))]

\* A timeout check that lets the tick at exactly timeout_at through.
TimedOut_Strict(orig, now) == orig.timeout_at # NoneInt /\ now > orig.timeout_at

\* Line 86: if job.timeout_at and now >= job.timeout_at
TimedOut(orig, now) == orig.timeout_at # NoneInt /\ now >= orig.timeout_at

\* Lines 63-351 up to the commit: a worker takes the tick `t`, loads the
\* row, decides, and (where the code calls the provider) receives the
\* upstream answer `resp` with jitter draw `u`.  What it then holds is its
\* ORM object, ready to commit.  With `again` the broker keeps the tick and
\* will deliver it once more.
Decide(me, resp, u) ==
    LET now == me.now
        orig == me.orig
    IN  IF orig.status = NoneStr
        THEN [me EXCEPT !.pc = "return", !.kind = "missing"]
        ELSE IF orig.status \in TERMINAL_STATUSES
        THEN [me EXCEPT !.pc = "return", !.kind = "terminal"]
        ELSE IF TimedOut(orig, now)
        THEN [me EXCEPT !.pc = "commit", !.kind = "timeout",
                        !.job.status = TIMEOUT,
                        !.job.finished_at = now,
                        !.job.last_error_code = "TIMEOUT",
                        !.job.last_error_message = "Job exceeded timeout"]
        ELSE IF me.option = NoneStr
        THEN [me EXCEPT !.pc = "commit", !.kind = "option_not_found",
                        !.job.status = FAILED,
                        !.job.finished_at = now,
                        !.job.last_error_code = "OPTION_NOT_FOUND",
                        !.job.last_error_message = "Associated option not found"]
        ELSE IF orig.provider_job_set_id = NoneInt
        THEN LET starting == [me EXCEPT !.job.status = RUNNING,
                                        !.job.started_at = now,
                                        !.job.attempts = orig.attempts + 1,
                                        !.called = "start_generation"]
                 r == start_generation(resp)
             IN  IF r.exc = "none" THEN OnStarted(starting, r, u)
                                   ELSE OnException(starting, r, u)
        ELSE IF orig.next_poll_at # NoneInt /\ now < orig.next_poll_at
        THEN [me EXCEPT !.pc = "return", !.kind = "not_ready",
                        !.delay_seconds = Max(1, WholeSeconds(orig.next_poll_at - now))]
        ELSE LET polling == [me EXCEPT !.called = "get_job_set"]
                 r == get_job_set(resp)
             IN  IF r.exc = "none" THEN OnPolled(polling, r, u)
                                   ELSE OnException(polling, r, u)

\* The upstream answers the provider can give to the call the tick makes
\* (NoAnswer where the tick makes none).
NoAnswer == [transport |-> "none"]

Answers(orig, now) ==
    IF \/ orig.status = NoneStr
       \/ orig.status \in TERMINAL_STATUSES
       \/ TimedOut(orig, now)
       \/ orig.option_id \notin options
    THEN {NoAnswer}
    ELSE IF orig.provider_job_set_id = NoneInt THEN StartResponses(nextSetId)
    ELSE IF orig.next_poll_at # NoneInt /\ now < orig.next_poll_at THEN {NoAnswer}
    ELSE PollResponses

\* Answers of a provider that hands out a job-set id it has issued before.
ReusedAnswers(orig, now) ==
    IF Answers(orig, now) = {NoAnswer} \/ orig.provider_job_set_id # NoneInt
    THEN {}
    ELSE { [transport |-> "ok", status_code |-> 200, body |-> "json", job_set_id |-> i] :
              i \in 1..(nextSetId - 1) }

Draws(resp) == IF resp = NoAnswer THEN {0} ELSE JitterDraws

\* db.get(Option, job.option_id): the option's id, or None.
get_Option(option_id) == IF option_id \in options THEN option_id ELSE NoneStr

RowOf(t) == IF t.job_id \in DOMAIN jobs THEN jobs[t.job_id] ELSE NoRow

Load(w, t, again, resp, u) ==
    /\ workers[w].pc = "idle"
    /\ \A w2 \in Workers : w2 < w => workers[w2].pc # "idle"
    /\ t \in Deliverable
    /\ again => ExtraTicks < MaxExtraTicks
    /\ redelivered' = IF again THEN redelivered + 1 ELSE redelivered
    /\ queue' = IF again THEN queue ELSE queue (-) SetToBag({t})
    /\ LET orig == RowOf(t)
           me == [IdleWorker EXCEPT !.job_id = t.job_id, !.now = clock,
                                    !.orig = orig, !.job = orig,
                                    !.option = get_Option(orig.option_id)]
       IN  /\ resp \in Answers(orig, clock) \cup ReusedAnswers(orig, clock)
           /\ u \in Draws(resp)
           /\ workers' = [workers EXCEPT ![w] = Decide(me, resp, u)]
           /\ nextSetId' = IF workers'[w].job.provider_job_set_id = nextSetId
                           THEN nextSetId + 1
                           ELSE nextSetId
    /\ UNCHANGED <<call, sseVars, options, clock, jobs, reqs, published, fatal>>

PublishingKinds == {"timeout", "completed", "failed", "non_retryable"}
\* A poll task that enqueues no next tick while the provider is still working.
RequeueingKinds_ErrorsOnly == {"started", "rate_limited", "retryable", "internal_error"}

RequeueingKinds == {"started", "still_processing", "rate_limited", "retryable",
                    "internal_error"}

\* A flush that writes every pending attribute, whatever the index holds.
ix_jobs_provider_job_set_id_Absent(job_id, orig, job) == {}

\* The unique index on provider_job_set_id: the other rows that the UPDATE
\* of `job_id` collides with (it writes the column only when it changed).
ix_jobs_provider_job_set_id(job_id, orig, job) ==
    { j \in DOMAIN jobs \ {job_id} :
        /\ job.provider_job_set_id # orig.provider_job_set_id
        /\ job.provider_job_set_id # NoneInt
        /\ jobs[j].provider_job_set_id = job.provider_job_set_id }

\* await db.commit() and what follows it: the event, or the next tick.
Commit(w) ==
    /\ workers[w].pc = "commit"
    /\ ix_jobs_provider_job_set_id(workers[w].job_id, workers[w].orig, workers[w].job) = {}
    /\ LET me == workers[w] IN
       /\ jobs' = [jobs EXCEPT ![me.job_id] = Flush(@, me.orig, me.job)]
       /\ published' = IF me.kind \in PublishingKinds
                       THEN published (+) SetToBag({JobUpdated(me.job_id, me.job)})
                       ELSE published
       /\ queue' = IF me.kind \in RequeueingKinds
                   THEN Enqueue(queue, me.job_id, me.delay_seconds)
                   ELSE queue
       /\ fatal' = IF me.kind = "non_retryable" THEN fatal \cup {me.job_id} ELSE fatal
    /\ workers' = [workers EXCEPT ![w] = IdleWorker]
    /\ UNCHANGED <<call, sseVars, options, clock, reqs, nextSetId, redelivered>>

\* db.commit() at line 153 raises IntegrityError on the unique index: the
\* transaction is rolled back and the row keeps what it held.  The error
\* lands in `except Exception` (lines 332-351), whose own commit on the
\* failed session either goes through (INTERNAL_ERROR recorded, next tick
\* enqueued) or raises again, which ends the task without a next tick.
CommitRejected(w, recorded, u) ==
    /\ workers[w].pc = "commit"
    /\ ix_jobs_provider_job_set_id(workers[w].job_id, workers[w].orig, workers[w].job) # {}
    /\ LET me == workers[w]
           row == jobs[me.job_id]
           backoff_ms == next_interval_ms(row.attempts, POLL_MIN_INTERVAL_MS,
                                          POLL_MAX_INTERVAL_MS, POLL_JITTER_PCT, u)
       IN  IF recorded
           THEN /\ jobs' = [jobs EXCEPT ![me.job_id] =
                             [@ EXCEPT !.last_error_code = "INTERNAL_ERROR",
                                       !.last_error_message = "IntegrityError",
                                       !.next_poll_at = me.now + backoff_ms]]
                /\ queue' = Enqueue(queue, me.job_id, Max(1, WholeSeconds(backoff_ms)))
           ELSE UNCHANGED <<jobs, queue>>
    /\ workers' = [workers EXCEPT ![w] = IdleWorker]
    /\ UNCHANGED <<call, sseVars, options, clock, reqs, published, nextSetId, redelivered, fatal>>

\* The paths that end without a commit: the job is missing or terminal
\* (the tick is dropped), or it is not yet next_poll_at (the tick is requeued).
Return(w) ==
    /\ workers[w].pc = "return"
    /\ queue' = IF workers[w].kind = "not_ready"
                THEN Enqueue(queue, workers[w].job_id, workers[w].delay_seconds)
                ELSE queue
    /\ workers' = [workers EXCEPT ![w] = IdleWorker]
    /\ UNCHANGED <<call, sseVars, options, clock, jobs, reqs, published, nextSetId, redelivered, fatal>>

\* ------------------------------------------------------------------ clock

AdvanceClock ==
    /\ clock < MaxClockMs
    /\ clock' = clock + MsPerS
    /\ UNCHANGED <<call, sseVars, options, jobs, reqs, queue, workers, published, nextSetId,
                   redelivered, fatal>>

\* ------------------------------------------------------ SSE broker

\* The users that open SSE connections.
Users == {get_current_user_id, "U2"}

\* channel = f"chat:{user_id}"
Channel(user_id) == <<"chat", user_id>>

NoEvent == [type |-> "none"]
PingEvent == [type |-> "ping"]

\* The job.updated events published for `user_id` in a run.
EventsFor(user_id) ==
    { JobUpdated(1, [user_id |-> user_id, status |-> st]) : st \in {SUCCEEDED} }

\* list.remove(q): the list without the first occurrence of q.
Remove(list, q) ==
    LET at == { i \in 1..Len(list) : list[i] = q }
    IN  IF at = {} THEN list
        ELSE LET first == CHOOSE i \in at : \A k \in at : i <= k
             IN  [ i \in 1..(Len(list) - 1) |->
                      IF i < first THEN list[i] ELSE list[i + 1] ]

RECURSIVE RemoveEach(_, _)
\* for queue in dead_queues: self._subscribers[channel].remove(queue)
RemoveEach(list, dead_queues) ==
    IF dead_queues = <<>> THEN list
    ELSE RemoveEach(Remove(list, Head(dead_queues)), Tail(dead_queues))

\* A put_nowait that always finds room.
Full_Never(q) == FALSE

\* asyncio.Queue.full(): put_nowait raises QueueFull.
Full(q) == Len(q) >= QUEUE_MAXSIZE

\* A publish that hands the event to the subscribers of every channel.
publish_Broadcast(subs, qs, channel, event) ==
    [ subscribers |-> subs,
      queues |-> [ q \in DOMAIN qs |->
                     IF \E ch \in DOMAIN subs : \E i \in 1..Len(subs[ch]) : subs[ch][i] = q
                     THEN Append(qs[q], event) ELSE qs[q] ] ]

\* SSEBroker.publish: the subscriber lists and queues it leaves.
publish(subs, qs, channel, event) ==
    IF channel \notin DOMAIN subs
    THEN [subscribers |-> subs, queues |-> qs]
    ELSE LET list == subs[channel]
             dead_queues == SelectSeq(list, LAMBDA q : Full(qs[q]))
             live == { list[i] : i \in { k \in 1..Len(list) : ~ Full(qs[list[k]]) } }
         IN  [ subscribers |-> [subs EXCEPT ![channel] = RemoveEach(list, dead_queues)],
               queues |-> [ q \in DOMAIN qs |->
                              IF q \in live THEN Append(qs[q], event) ELSE qs[q] ] ]

\* SSEBroker.unsubscribe: the subscriber lists it leaves.
unsubscribe(subs, channel, q) ==
    IF channel \in DOMAIN subs /\ \E i \in 1..Len(subs[channel]) : subs[channel][i] = q
    THEN [subs EXCEPT ![channel] = Remove(@, q)]
    ELSE subs

\* GET /sse/{chat_id}: event_generator's first step, broker.subscribe(channel)
\* with a new queue (the connection's number names it).
Subscribe(c, user_id) ==
    /\ clients[c].pc = "new"
    /\ \A c2 \in Clients : c2 < c => clients[c2].pc # "new"
    /\ LET channel == Channel(user_id) IN
       /\ queues' = [ q \in DOMAIN queues \cup {c} |->
                         IF q = c THEN <<>> ELSE queues[q] ]
       /\ subscribers' = [ ch \in DOMAIN subscribers \cup {channel} |->
                             IF ch = channel
                             THEN Append(IF ch \in DOMAIN subscribers
                                         THEN subscribers[ch] ELSE <<>>, c)
                             ELSE subscribers[ch] ]
       /\ clients' = [clients EXCEPT ![c] =
                         [@ EXCEPT !.pc = "waiting", !.channel = channel, !.queue = c]]
    /\ UNCHANGED <<call, jobVars>>

\* A call of publish on the broker that holds these subscriptions.
Publish(user_id, event) ==
    /\ LET after == publish(subscribers, queues, Channel(user_id), event) IN
       /\ subscribers' = after.subscribers
       /\ queues' = after.queues
    /\ UNCHANGED <<call, jobVars, clients>>

\* await asyncio.wait_for(queue.get(), timeout=30.0) returns an event, which
\* the generator yields.
Recv(c) ==
    /\ clients[c].pc = "waiting"
    /\ queues[clients[c].queue] # <<>>
    /\ clients' = [clients EXCEPT ![c] =
                      [@ EXCEPT !.pc = "yielded", !.event = Head(queues[clients[c].queue])]]
    /\ queues' = [queues EXCEPT ![clients[c].queue] = Tail(@)]
    /\ UNCHANGED <<call, jobVars, subscribers>>

\* The wait times out: the generator yields a keepalive ping.
Ping(c) ==
    /\ clients[c].pc = "waiting"
    /\ queues[clients[c].queue] = <<>>
    /\ clients' = [clients EXCEPT ![c] = [@ EXCEPT !.pc = "yielded", !.event = PingEvent]]
    /\ UNCHANGED <<call, jobVars, subscribers, queues>>

\* The response has written what was yielded and asks for the next item.
Resume(c) ==
    /\ clients[c].pc = "yielded"
    /\ clients' = [clients EXCEPT ![c] = [@ EXCEPT !.pc = "waiting", !.event = NoEvent]]
    /\ UNCHANGED <<call, jobVars, subscribers, queues>>

\* The client closes the connection.  While the generator awaits the queue
\* the response task's cancellation is raised there as CancelledError
\* (lines 46-48: unsubscribe); while it is suspended at a yield the
\* generator is closed with GeneratorExit, which no except clause catches.
Close(c) ==
    /\ clients[c].pc \in {"waiting", "yielded"}
    /\ subscribers' = IF clients[c].pc = "waiting"
                      THEN unsubscribe(subscribers, clients[c].channel, clients[c].queue)
                      ELSE subscribers
    /\ clients' = [clients EXCEPT ![c] = [@ EXCEPT !.pc = "closed", !.event = NoEvent]]
    /\ UNCHANGED <<call, jobVars, queues>>

\* No generate request is between its lookup and its response.
NoRequestInFlight == \A r \in Requests : reqs[r].pc \in {"idle", "done"}

\* The jobs the client has already created with this option and key.
Known(option_id, key) ==
    { j \in DOMAIN jobs : jobs[j].option_id = option_id /\ jobs[j].idempotency_key = key }

\* A request that creates a job leaves the job's whole timeout inside the
\* horizon.
InsideHorizon(option_id) ==
    clock + get_timeout_seconds(Options[option_id].tool_type) * MsPerS <= MaxClockMs

\* The poller's environment: one client creates the job; further ticks for
\* it come from the broker delivering a tick again.
CreatesAlone(option_id, key) ==
    /\ Known(option_id, key) = {}
    /\ NoRequestInFlight
    /\ InsideHorizon(option_id)

Next ==
    \/ \E r \in Requests, o \in OptionIds, k \in {"K1"} :
          CreatesAlone(o, k) /\ GenerateBegin(r, o, k)
    \/ \E r \in Requests : CreateJobFlush(r)
    \/ \E r \in Requests : GenerateCommit(r)
    \/ \E r \in Requests : GenerateEnqueue(r)
    \/ \E w \in Workers, t \in Deliverable, again \in BOOLEAN :
          \E resp \in Answers(RowOf(t), clock) :
             \E u \in Draws(resp) : Load(w, t, again, resp, u)
    \/ \E w \in Workers : Commit(w)
    \/ \E w \in Workers : Return(w)
    \/ AdvanceClock

Spec == Init /\ [][Next]_vars

\* ------------------------------------------------- sequential clients

\* A client that sends its next generate request after the previous one was
\* answered (the idempotent replay), at any time in the job's life.
Sequential(option_id, key) ==
    /\ NoRequestInFlight
    /\ Known(option_id, key) = {} => InsideHorizon(option_id)

SeqNext ==
    \/ \E r \in Requests, o \in OptionIds, k \in {"K1"} :
          Sequential(o, k) /\ GenerateBegin(r, o, k)
    \/ \E r \in Requests : CreateJobFlush(r)
    \/ \E r \in Requests : GenerateCommit(r)
    \/ \E r \in Requests : GenerateEnqueue(r)
    \/ \E w \in Workers, t \in Deliverable :
          \E resp \in Answers(RowOf(t), clock) :
             \E u \in Draws(resp) : Load(w, t, FALSE, resp, u)
    \/ \E w \in Workers : Commit(w)
    \/ \E w \in Workers : Return(w)
    \/ AdvanceClock

SpecSeq == Init /\ [][SeqNext]_vars

\* ------------------------------------------------- concurrent clients

\* Clients that send generate requests at any time, also while another
\* request with the same key is being handled.
RaceNext ==
    \/ \E r \in Requests, o \in OptionIds, k \in IdempotencyKeys :
          InsideHorizon(o) /\ GenerateBegin(r, o, k)
    \/ \E r \in Requests : CreateJobFlush(r)
    \/ \E r \in Requests : GenerateCommit(r)
    \/ \E r \in Requests : GenerateEnqueue(r)
    \/ AdvanceClock

SpecRace == Init /\ [][RaceNext]_vars

\* --------------------------------------------------- rejected requests

\* Idempotency-Key headers that are absent (None) or empty.
MissingKeys == {NoneStr, ""}

\* Ids of options that are not in the options table.
UnknownOptionIds == {"O9"}

\* A check that lets an empty header through.
require_idempotency_key_NoneOnly(idempotency_key) ==
    IF idempotency_key = NoneStr
    THEN [ status_code |-> 400, detail |-> "MISSING_IDEMPOTENCY_KEY" ]
    ELSE [ status_code |-> 0, detail |-> NoneStr ]

\* require_idempotency_key: the HTTPException it raises, if any.
require_idempotency_key(idempotency_key) ==
    IF idempotency_key = NoneStr \/ idempotency_key = ""
    THEN [ status_code |-> 400, detail |-> "MISSING_IDEMPOTENCY_KEY" ]
    ELSE [ status_code |-> 0, detail |-> NoneStr ]

\* The HTTPException that ends generate_option before create_job, if any: the
\* dependency runs before the handler's option check.
Rejection(option_id, key) ==
    IF require_idempotency_key(key).status_code # 0
    THEN require_idempotency_key(key)
    ELSE IF option_id \notin OptionIds
    THEN [ status_code |-> 404, detail |-> "Option not found" ]
    ELSE [ status_code |-> 0, detail |-> NoneStr ]

\* A generate request that is answered with the HTTPException.
GenerateReject(r, option_id, key) ==
    /\ reqs[r].pc = "idle"
    /\ \A r2 \in Requests : r2 < r => reqs[r2].pc # "idle"
    /\ Rejection(option_id, key).status_code # 0
    /\ reqs' = [reqs EXCEPT ![r] =
                  [@ EXCEPT !.pc = "done", !.option_id = option_id, !.key = key,
                            !.status_code = Rejection(option_id, key).status_code,
                            !.detail = Rejection(option_id, key).detail]]
    /\ UNCHANGED <<call, sseVars, options, clock, jobs, queue, workers, published, nextSetId,
                   redelivered, fatal>>

\* Clients that send generate requests with and without a key, for options
\* that exist and options that do not, at any time.
RejectNext ==
    \/ \E r \in Requests, o \in OptionIds \cup UnknownOptionIds,
          k \in IdempotencyKeys \cup MissingKeys :
          IF Rejection(o, k).status_code # 0
          THEN GenerateReject(r, o, k)
          ELSE InsideHorizon(o) /\ GenerateBegin(r, o, k)
    \/ \E r \in Requests : CreateJobFlush(r)
    \/ \E r \in Requests : GenerateCommit(r)
    \/ \E r \in Requests : GenerateEnqueue(r)
    \/ AdvanceClock

SpecReject == Init /\ [][RejectNext]_vars

\* ------------------------------------------------------- SSE clients

\* SSE connections of two users, publishers and the broker.
SseNext ==
    \/ \E c \in Clients, u \in Users : Subscribe(c, u)
    \/ \E u \in Users : \E e \in EventsFor(u) : Publish(u, e)
    \/ \E c \in Clients : Recv(c)
    \/ \E c \in Clients : Ping(c)
    \/ \E c \in Clients : Resume(c)
    \/ \E c \in Clients : Close(c)

SpecSse == Init /\ [][SseNext]_vars

\* ------------------------------------------------------ functions

\* Everything but the recorded call is as after construction.
InitTables ==
    /\ clock = 0
    /\ jobs = <<>>
    /\ reqs = [r \in Requests |-> IdleRequest]
    /\ queue = EmptyBag
    /\ workers = [w \in Workers |-> IdleWorker]
    /\ published = EmptyBag
    /\ nextSetId = 1
    /\ redelivered = 0
    /\ fatal = {}
    /\ options = OptionIds
    /\ subscribers = <<>>
    /\ queues = <<>>
    /\ clients = [c \in Clients |-> NewClient]

\* jitter as a percentage: 0 <= jitter < 1.
JitterPcts == {0, 20, 50, 99}

\* random.uniform at its two ends and in its middle.
UniformDraws == {0 - 1, 0, 1}

\* The configurations with 0 < min_ms <= max_ms: a grid of small ones and the
\* configured one.
BackoffConfigs ==
    { c \in [min_ms : 1..MaxMinMs, max_ms : 1..MaxMaxMs, jitter_pct : JitterPcts] :
        c.min_ms <= c.max_ms }
    \cup { [ min_ms |-> POLL_MIN_INTERVAL_MS, max_ms |-> POLL_MAX_INTERVAL_MS,
             jitter_pct |-> POLL_JITTER_PCT ] }

\* The arguments of next_interval_ms and the draw of random.uniform.
BackoffCalls ==
    { [ fn |-> "next_interval_ms", attempt |-> n, min_ms |-> c.min_ms,
        max_ms |-> c.max_ms, jitter_pct |-> c.jitter_pct, u |-> u,
        result |-> NoneInt ] :
        n \in 0..MaxAttempt, c \in BackoffConfigs, u \in UniformDraws }

\* next_interval_ms(attempt, min_ms, max_ms, jitter) is called.
Backoff ==
    /\ call.fn = "next_interval_ms"
    /\ call.result = NoneInt
    /\ call' = [call EXCEPT !.result =
                  next_interval_ms(call.attempt, call.min_ms, call.max_ms,
                                   call.jitter_pct, call.u)]
    /\ UNCHANGED <<jobVars, sseVars>>

\* int(x) for x in seconds, given in ms: truncation towards zero.
IntS(ms) == IF ms >= 0 THEN ms \div MsPerS ELSE 0 - ((0 - ms) \div MsPerS)

\* A get_job that selects by id alone.
Owned_Any(row, user_id) == TRUE

\* GenerationJob.user_id == user_id
Owned(row, user_id) == row.user_id = user_id

\* GET .../jobs/{job_id} by `user_id` at `now` over the rows of `table`.
get_job(table, job_id, user_id, now) ==
    LET found == { j \in DOMAIN table : j = job_id /\ Owned(table[j], user_id) }
    IN  IF found = {}
        THEN [ status_code |-> 404, detail |-> "Job not found" ]
        ELSE LET job == table[job_id]
                 delta == job.next_poll_at - now
                 retry_after_seconds ==
                     IF job.next_poll_at # NoneInt
                     THEN Max(1, Min(IntS(delta) + 1, 10))
                     ELSE 10
                 result_data ==
                     IF job.status = SUCCEEDED /\ job.output_urls # <<>>
                     THEN [ min_url |-> job.output_urls[1].min_url,
                            raw_url |-> job.output_urls[1].raw_url,
                            mime |-> IF job.output_urls[1].type = "image"
                                     THEN "image/jpeg" ELSE "video/mp4" ]
                     ELSE [ min_url |-> NoneStr, raw_url |-> NoneStr, mime |-> NoneStr ]
                 error_data ==
                     IF job.status \in {FAILED, TIMEOUT}
                     THEN [ code |-> OrElse(job.last_error_code, "UNKNOWN"),
                            message |-> OrElse(job.last_error_message, "Job failed") ]
                     ELSE [ code |-> NoneStr, message |-> NoneStr ]
             IN  [ status_code |-> 200, job_id |-> job_id, status |-> job.status,
                   result |-> result_data, error |-> error_data,
                   retry_after_seconds |-> retry_after_seconds ]

\* Times on a half-second grid, in ms.
HalfSeconds == { k * (MsPerS \div 2) : k \in 0..MaxHalfS }

\* Rows a GET may find: of either user, in any status, polled or not.
GetRows ==
    { [ NoRow EXCEPT !.user_id = u, !.option_id = "O1", !.idempotency_key = "K1",
                     !.status = st, !.next_poll_at = t,
                     !.last_error_code = IF st = FAILED THEN "PROVIDER_FAILED" ELSE NoneStr,
                     !.output_urls = IF st = SUCCEEDED
                                     THEN <<NormalizeResult(RawResult)>> ELSE <<>> ] :
        u \in Users, t \in HalfSeconds \cup {NoneInt},
        st \in {PENDING, RUNNING, SUCCEEDED, FAILED, TIMEOUT, CANCELED} }

\* The GETs: of the job in the table and of an id that is not there.
GetCalls ==
    { [ fn |-> "get_job", table |-> (1 :> row), job_id |-> j,
        user_id |-> get_current_user_id, now |-> now, response |-> NoCall ] :
        row \in GetRows, j \in {1, 2}, now \in { t \in HalfSeconds : t >= 2 * MsPerS } }

\* The handler get_job runs.
GetJob ==
    /\ call.fn = "get_job"
    /\ call.response = NoCall
    /\ call' = [call EXCEPT !.response =
                  get_job(call.table, call.job_id, call.user_id, call.now)]
    /\ UNCHANGED <<jobVars, sseVars>>

\* HTTP status codes of upstream answers, beyond those the poller is run on.
AdapterStatusCodes == HttpStatusCodes \cup {401, 503}

\* Every label of the adapter's table, labels in capitals, an unknown label
\* and the empty one (the default of a missing "status").
AdapterLabels ==
    { "queued", "pending", "processing", "running", "in_progress", "completed",
      "succeeded", "success", "failed", "error" }
    \cup UpstreamLabels \cup {"Failed"}

\* Upstream answers to the two adapter calls.
AdapterCalls ==
    { [ fn |-> "start_generation", resp |-> x, result |-> NoCall ] :
        x \in StartResponses(1)
              \cup { [ transport |-> "ok", status_code |-> c, body |-> "json",
                       job_set_id |-> NoneInt ] : c \in AdapterStatusCodes } }
    \cup
    { [ fn |-> "get_job_set", resp |-> x, result |-> NoCall ] :
        x \in PollResponses
              \cup { [ transport |-> "ok", status_code |-> c, body |-> "json",
                       data |-> NoData ] : c \in AdapterStatusCodes \ {200} }
              \cup { [ transport |-> "ok", status_code |-> 200, body |-> "json",
                       data |-> [status |-> l, results |-> rs, outputs |-> os] ] :
                       l \in AdapterLabels, rs \in {<<>>, <<RawResult>>},
                       os \in {<<>>, <<RawResult>>} } }

\* provider.start_generation(...) against the upstream answer.
CallStartGeneration ==
    /\ call.fn = "start_generation"
    /\ call.result = NoCall
    /\ call' = [call EXCEPT !.result = start_generation(call.resp)]
    /\ UNCHANGED <<jobVars, sseVars>>

\* provider.get_job_set(...) against the upstream answer.
CallGetJobSet ==
    /\ call.fn = "get_job_set"
    /\ call.result = NoCall
    /\ call' = [call EXCEPT !.result = get_job_set(call.resp)]
    /\ UNCHANGED <<jobVars, sseVars>>

PureCalls == BackoffCalls \cup GetCalls \cup AdapterCalls

PureNext ==
    \/ Backoff
    \/ GetJob
    \/ CallStartGeneration
    \/ CallGetJobSet

\* The state after construction, with the call to make.
InitPure == InitTables /\ call \in PureCalls

SpecPure == InitPure /\ [][PureNext]_vars

\* ------------------------------------------------------------- claims

SameTriple(r1, r2) ==
    /\ reqs[r1].option_id = reqs[r2].option_id
    /\ reqs[r1].key = reqs[r2].key

\* The committed job rows that hold request r's triple.
RowsFor(r) ==
    { j \in DOMAIN jobs :
        /\ jobs[j].user_id = get_current_user_id
        /\ jobs[j].option_id = reqs[r].option_id
        /\ jobs[j].idempotency_key = reqs[r].key }

\* C1: sequential generate calls with one (user_id, option_id,
\* idempotency_key) are all answered 202 with the same job_id, and exactly
\* one job row holds that triple, whatever the job's status between calls.
C1_SequentialIdempotent ==
    \A r1 \in Requests, r2 \in Requests :
        (reqs[r1].pc = "done" /\ reqs[r2].pc = "done" /\ SameTriple(r1, r2)) =>
            /\ reqs[r1].status_code = 202
            /\ reqs[r1].job_id = reqs[r2].job_id
            /\ RowsFor(r1) = {reqs[r1].job_id}

\* A replay that found the job already SUCCEEDED and was answered with its id.
C1_Witness ==
    \E r \in Requests :
        /\ reqs[r].pc = "done"
        /\ reqs[r].job_id # r
        /\ reqs[r].row.status = SUCCEEDED
        /\ reqs[r].status_code = 202

\* C2: two concurrent generate calls with one (user_id, option_id,
\* idempotency_key) leave one row and are both answered with its job_id.
C2_ConcurrentIdempotent ==
    \A r1 \in Requests, r2 \in Requests :
        (reqs[r1].pc = "done" /\ reqs[r2].pc = "done" /\ SameTriple(r1, r2)) =>
            /\ reqs[r1].status_code = 202
            /\ reqs[r1].job_id = reqs[r2].job_id
            /\ Cardinality(RowsFor(r1)) = 1

\* A worker starts on a tick in this step (load, decision, provider call).
Loads(w) == workers[w].pc = "idle" /\ workers'[w].pc # "idle"

\* A worker finishes its tick in this step (commit and what follows, or return).
Finishes(w) == workers[w].pc # "idle" /\ workers'[w].pc = "idle"

\* The number of ticks added to the queue in this step.
Enqueued == BagCardinality(queue') - BagCardinality(queue)

\* C3: once a job's committed status is terminal, no later step changes any
\* field of its row.
C3_TerminalImmutable ==
    [][\A j \in DOMAIN jobs :
          jobs[j].status \in TERMINAL_STATUSES => jobs'[j] = jobs[j]]_vars

\* C4: a tick that loads a PENDING or RUNNING job at now >= timeout_at makes
\* no provider call and holds status = TIMEOUT, finished_at = now and
\* last_error_code = TIMEOUT for its commit; after that commit the row's
\* status is TIMEOUT, and its finished_at and last_error_code are the tick's
\* where the row it loaded had none.
C4_TimeoutDominance ==
    [][\A w \in Workers :
          /\ ( /\ Loads(w)
               /\ workers'[w].orig.status \in {PENDING, RUNNING}
               /\ workers'[w].now >= workers'[w].orig.timeout_at )
             => /\ workers'[w].pc = "commit"
                /\ workers'[w].called = "none"
                /\ workers'[w].job.status = TIMEOUT
                /\ workers'[w].job.finished_at = workers'[w].now
                /\ workers'[w].job.last_error_code = "TIMEOUT"
                /\ nextSetId' = nextSetId
          /\ ( /\ Finishes(w)
               /\ workers[w].orig.status \in {PENDING, RUNNING}
               /\ workers[w].now >= workers[w].orig.timeout_at )
             => /\ workers[w].pc = "commit"
                /\ jobs'[workers[w].job_id].status = TIMEOUT
                /\ workers[w].orig.finished_at = NoneInt
                      => jobs'[workers[w].job_id].finished_at = workers[w].now
                /\ workers[w].orig.last_error_code = NoneStr
                      => jobs'[workers[w].job_id].last_error_code = "TIMEOUT"
      ]_vars

\* A RUNNING job past its timeout, loaded by a tick that is about to commit
\* TIMEOUT.
C4_Witness ==
    \E w \in Workers :
        /\ workers[w].pc = "commit"
        /\ workers[w].kind = "timeout"
        /\ workers[w].orig.status = RUNNING
        /\ workers[w].orig.provider_job_set_id # NoneInt
        /\ workers[w].now >= workers[w].orig.timeout_at

\* C5: of two ticks for one job that are processed at the same time by two
\* workers, at most one has called the provider and is to update the row.
C5_AtMostOneTransition ==
    \A w1 \in Workers, w2 \in Workers :
        ( /\ w1 # w2
          /\ workers[w1].pc # "idle"
          /\ workers[w2].pc # "idle"
          /\ workers[w1].job_id = workers[w2].job_id )
        => ~ ( /\ workers[w1].pc = "commit" /\ workers[w1].called # "none"
               /\ workers[w2].pc = "commit" /\ workers[w2].called # "none" )

\* C7: when a tick finishes processing a job, it has enqueued exactly one
\* successor tick if the job's committed status is PENDING or RUNNING and
\* none if it is terminal.
C7_OneSuccessorIffActive ==
    [][\A w \in Workers :
          (Finishes(w) /\ workers[w].job_id \in DOMAIN jobs')
          => Enqueued =
                IF jobs'[workers[w].job_id].status \in {PENDING, RUNNING}
                THEN 1 ELSE 0
      ]_vars

\* C8: after a tick has handled a non-retryable adapter error for a job, no
\* tick makes a StartGeneration or GetJobSet call for that job.
C8_NoCallAfterFatal ==
    [][\A w \in Workers :
          (Loads(w) /\ workers'[w].called # "none")
          => workers'[w].job_id \notin fatal
      ]_vars

\* The published job.updated events of job j that carry a terminal status.
TerminalEvents(j) ==
    { e \in BagToSet(published) : e.job_id = j /\ e.status \in TERMINAL_STATUSES }

\* C10: at most one job.updated event with a terminal status is published
\* for a job.
C10_AtMostOneTerminalEvent ==
    \A j \in DOMAIN jobs :
        /\ Cardinality(TerminalEvents(j)) <= 1
        /\ \A e \in TerminalEvents(j) : CopiesIn(e, published) = 1

\* The errors the poll task retries: the retryable adapter errors and any
\* unexpected exception.
RetriedErrors == {"RATE_LIMITED", "PROVIDER_SERVER_ERROR", "NETWORK_ERROR", "Exception"}

\* C9: a tick whose provider call raises a retryable error, or that hits an
\* unexpected exception, holds for its commit the error's code (INTERNAL_ERROR
\* for the exception) and message, next_poll_at = now + backoff and a
\* non-terminal status; its commit sets the row's status to no terminal
\* state and enqueues one tick for the job.
C9_RetryableKeepsActive ==
    [][\A w \in Workers :
          /\ (Loads(w) /\ workers'[w].e \in RetriedErrors)
             => LET me == workers'[w]
                    attempt == IF me.e = "RATE_LIMITED" THEN me.job.attempts + 5
                               ELSE me.job.attempts
                IN  /\ me.pc = "commit"
                    /\ me.job.last_error_code =
                          (IF me.e = "Exception" THEN "INTERNAL_ERROR" ELSE me.e)
                    /\ me.job.last_error_message # NoneStr
                    /\ \E u \in JitterDraws :
                          me.job.next_poll_at = me.now +
                             next_interval_ms(attempt, POLL_MIN_INTERVAL_MS,
                                              POLL_MAX_INTERVAL_MS, POLL_JITTER_PCT, u)
                    /\ me.job.status \notin TERMINAL_STATUSES
          /\ (Finishes(w) /\ workers[w].e \in RetriedErrors)
             => LET j == workers[w].job_id
                IN  /\ jobs'[j].status \in {jobs[j].status, RUNNING}
                    /\ jobs[j].last_error_code = workers[w].orig.last_error_code
                          => jobs'[j].last_error_code = workers[w].job.last_error_code
                    /\ jobs[j].next_poll_at = workers[w].orig.next_poll_at
                          => jobs'[j].next_poll_at = workers[w].job.next_poll_at
                    /\ Enqueued = 1
                    /\ \E t \in BagToSet(queue') :
                          /\ t.job_id = j
                          /\ CopiesIn(t, queue') = CopiesIn(t, queue) + 1
                    /\ published' = published
      ]_vars

\* A poll of a RUNNING job met a retryable server error and is about to
\* commit it.
C9_Witness ==
    \E w \in Workers :
        /\ workers[w].pc = "commit"
        /\ workers[w].called = "get_job_set"
        /\ workers[w].e = "PROVIDER_SERVER_ERROR"
        /\ workers[w].orig.status = RUNNING

\* ----------------------------------------------------------- liveness

\* The scheduler delivers every enqueued tick, workers and request handlers
\* run to their end, and the clock keeps advancing.
Fairness ==
    /\ WF_vars(AdvanceClock)
    /\ WF_vars(\E w \in Workers, t \in Deliverable :
                  \E resp \in Answers(RowOf(t), clock) :
                     \E u \in Draws(resp) : Load(w, t, FALSE, resp, u))
    /\ \A w \in Workers : WF_vars(Commit(w)) /\ WF_vars(Return(w))
    /\ \A r \in Requests :
          WF_vars(CreateJobFlush(r)) /\ WF_vars(GenerateCommit(r))
             /\ WF_vars(GenerateEnqueue(r))

SpecLive == Init /\ [][Next]_vars /\ Fairness

C11_AttemptsMonotone ==
    [][\A j \in DOMAIN jobs : jobs'[j].attempts >= jobs[j].attempts]_vars

\* Two clients' jobs side by side, with a provider that may repeat a
\* job-set id.
TableNext ==
    \/ \E r \in Requests, o \in OptionIds, k \in IdempotencyKeys :
          CreatesAlone(o, k) /\ GenerateBegin(r, o, k)
    \/ \E r \in Requests : CreateJobFlush(r)
    \/ \E r \in Requests : GenerateCommit(r)
    \/ \E r \in Requests : GenerateEnqueue(r)
    \/ \E w \in Workers, t \in Deliverable :
          \E resp \in Answers(RowOf(t), clock) \cup ReusedAnswers(RowOf(t), clock) :
             \E u \in Draws(resp) : Load(w, t, FALSE, resp, u)
    \/ \E w \in Workers : Commit(w)
    \/ \E w \in Workers, recorded \in BOOLEAN, u \in JitterDraws :
          CommitRejected(w, recorded, u)
    \/ \E w \in Workers : Return(w)
    \/ AdvanceClock

SpecTable == Init /\ [][TableNext]_vars

\* C12: any two distinct jobs with a non-null provider_job_set_id hold
\* different values.
C12_ProviderIdUnique ==
    \A j1 \in DOMAIN jobs, j2 \in DOMAIN jobs :
        (j1 # j2 /\ jobs[j1].provider_job_set_id # NoneInt)
        => jobs[j1].provider_job_set_id # jobs[j2].provider_job_set_id

\* Two jobs that both hold a provider job set, after the provider answered
\* one of them with the other's id and the index rejected that UPDATE.
C12_Witness ==
    \E j1 \in DOMAIN jobs, j2 \in DOMAIN jobs :
        /\ j1 # j2
        /\ jobs[j1].provider_job_set_id # NoneInt
        /\ jobs[j2].provider_job_set_id # NoneInt
        /\ jobs[j2].last_error_message = "IntegrityError"

\* C13: in every committed state of a job, finished_at is non-null if and
\* only if status is terminal.
C13_FinishedIffTerminal ==
    \A j \in DOMAIN jobs :
        (jobs[j].finished_at # NoneInt) <=> (jobs[j].status \in TERMINAL_STATUSES)

\* C14: in every committed state of a job, started_at is non-null if and
\* only if the committed status is or has earlier been RUNNING.  Stated step
\* by step: a new row has started_at exactly if it is RUNNING, and after a
\* commit started_at is non-null exactly if it was before or the committed
\* status is now RUNNING.
C14_StartedIffEverRunning ==
    [][\A j \in DOMAIN jobs' :
          (jobs'[j].started_at # NoneInt) <=>
             \/ jobs'[j].status = RUNNING
             \/ j \in DOMAIN jobs /\ jobs[j].started_at # NoneInt
      ]_vars

\* C15: timeout_at is set when the job is created and no later step, tick
\* or replay, changes it.
C15_TimeoutAtImmutable ==
    [][\A j \in DOMAIN jobs' :
          IF j \in DOMAIN jobs
          THEN jobs'[j].timeout_at = jobs[j].timeout_at
          ELSE jobs'[j].timeout_at # NoneInt
      ]_vars

\* A job that ticks have started and polled and a replay has hit, still
\* with the timeout_at of its creation at time 0.
C15_Witness ==
    \E r \in Requests :
        /\ reqs[r].pc = "done"
        /\ reqs[r].job_id \in DOMAIN jobs
        /\ reqs[r].job_id # r
        /\ jobs[reqs[r].job_id].attempts >= 2
        /\ jobs[reqs[r].job_id].last_polled_at # NoneInt
        /\ jobs[reqs[r].job_id].timeout_at = T2I_TIMEOUT_S * MsPerS

\* C16: a generate request that hits an existing job for its triple creates
\* no row and enqueues no tick: none of its steps changes the job table or
\* the tick queue.
C16_ReplayEnqueuesNothing ==
    [][\A r \in Requests :
          ( /\ reqs'[r] # reqs[r]
            /\ reqs'[r].job_id \notin {r, NoneInt} )
          => /\ DOMAIN jobs' = DOMAIN jobs
             /\ queue' = queue
      ]_vars

\* C17: a job in a terminal status is never revived: no step takes its
\* committed status out of the terminal statuses; a generate request whose
\* key matches a job is answered with that job's id, and one with another
\* key makes a new job in PENDING.
C17_TerminalNeverRevived ==
    [][/\ \A j \in DOMAIN jobs :
             jobs[j].status \in TERMINAL_STATUSES
                => jobs'[j].status \in TERMINAL_STATUSES
       /\ \A r \in Requests :
             (reqs[r].pc = "idle" /\ reqs'[r].pc # "idle")
             => LET same == { j \in DOMAIN jobs :
                                /\ jobs[j].option_id = reqs'[r].option_id
                                /\ jobs[j].idempotency_key = reqs'[r].key }
                IN  IF same # {}
                    THEN reqs'[r].job_id \in same /\ jobs' = jobs
                    ELSE /\ reqs'[r].job_id \notin DOMAIN jobs
                         /\ reqs'[r].row.status = PENDING
      ]_vars

\* The queues in the subscriber list of `channel`.
SubscribedOn(subs, channel) ==
    IF channel \in DOMAIN subs
    THEN { subs[channel][i] : i \in 1..Len(subs[channel]) }
    ELSE {}

\* C18: SSEBroker.publish never blocks: it is enabled in every state, and a
\* publish step appends the event to each subscribed queue that is not full
\* and keeps that queue subscribed, while a subscribed queue that already
\* holds QUEUE_MAXSIZE events is left as it is and removed from the
\* subscriber list; no queue ever holds more than QUEUE_MAXSIZE events.
C18_PublishNeverBlocks ==
    /\ [](\A q \in DOMAIN queues : Len(queues[q]) <= QUEUE_MAXSIZE)
    /\ [](\A u \in Users : \A e \in EventsFor(u) : ENABLED Publish(u, e))
    /\ [][\A u \in Users : \A e \in EventsFor(u) :
            Publish(u, e) =>
              \A q \in SubscribedOn(subscribers, Channel(u)) :
                 IF Len(queues[q]) < QUEUE_MAXSIZE
                 THEN /\ queues'[q] = Append(queues[q], e)
                      /\ q \in SubscribedOn(subscribers', Channel(u))
                 ELSE /\ queues'[q] = queues[q]
                      /\ q \notin SubscribedOn(subscribers', Channel(u))]_vars

\* A connection that is still open was dropped by a publish because its queue
\* was full, and another subscriber of the same channel got the event.
C18_Witness ==
    \E c1, c2 \in Clients :
       /\ c1 # c2
       /\ clients[c1].pc = "waiting"
       /\ clients[c2].pc = "waiting"
       /\ clients[c1].channel = clients[c2].channel
       /\ Len(queues[c1]) = QUEUE_MAXSIZE
       /\ c1 \notin SubscribedOn(subscribers, clients[c1].channel)
       /\ c2 \in SubscribedOn(subscribers, clients[c2].channel)
       /\ queues[c2] # <<>>

\* C19: an event published on chat:<u> is placed only in queues that are
\* subscribed on chat:<u> at that moment, so every event waiting in, or
\* yielded from, a connection's queue belongs to the connection's channel,
\* whatever the interleaving of subscribe, publish and unsubscribe.
C19_ChannelIsolation ==
    /\ [](\A c \in Clients :
            /\ clients[c].event.type = "job.updated"
                  => clients[c].event.channel = clients[c].channel
            /\ c \in DOMAIN queues
                  => \A i \in 1..Len(queues[c]) : queues[c][i].channel = clients[c].channel)
    /\ [][\A q \in DOMAIN queues :
            Len(queues'[q]) > Len(queues[q])
               => q \in SubscribedOn(subscribers, queues'[q][Len(queues'[q])].channel)]_vars

\* Connections of two users hold events at the same time, after a third
\* connection was closed and unsubscribed.
C19_Witness ==
    \E c1, c2, c3 \in Clients :
       /\ clients[c1].channel = Channel(get_current_user_id)
       /\ clients[c2].channel = Channel("U2")
       /\ queues[c1] # <<>>
       /\ clients[c2].event.type = "job.updated"
       /\ clients[c3].pc = "closed"
       /\ c3 \notin SubscribedOn(subscribers, clients[c3].channel)

\* C20: once the client has closed the connection its queue is in no
\* subscriber list and no later publish adds to it, and a close whose queue
\* is not subscribed (a publish removed it) leaves the broker as it was.
C20_CloseUnsubscribes ==
    [][/\ \A c \in Clients :
             clients'[c].pc = "closed"
                => /\ c \notin SubscribedOn(subscribers', clients'[c].channel)
                   /\ clients[c].pc = "closed" => queues'[c] = queues[c]
       /\ \A c \in Clients :
             (Close(c) /\ c \notin SubscribedOn(subscribers, clients[c].channel))
                => (subscribers' = subscribers /\ queues' = queues)]_vars

\* The event loop runs every generator that can take a step, and the response
\* writes what a generator yielded; clients are free to stay connected.
SseFairness ==
    \A c \in Clients : WF_vars(Recv(c)) /\ WF_vars(Ping(c)) /\ WF_vars(Resume(c))

SpecSseLive == Init /\ [][SseNext]_vars /\ SseFairness

\* The connection's queue was taken out of its channel's list while the
\* client is still connected.
Dropped(c) ==
    /\ clients[c].pc \in {"waiting", "yielded"}
    /\ c \notin SubscribedOn(subscribers, clients[c].channel)

\* C21: a subscription that a publish removed because its queue was full
\* eventually ends its reader's stream: the connection does not stay open,
\* waiting on a queue that no publish can reach.
C21_DroppedStreamEnds ==
    \A c \in Clients : Dropped(c) ~> (clients[c].pc = "closed")

\* C22: for 0 < min_ms <= max_ms and 0 <= jitter < 1 the value of
\* next_interval_ms(n, min_ms, max_ms, jitter) lies in
\* [min_ms*(1-jitter), max_ms*(1+jitter)], and without jitter it is
\* min(min_ms*2^n, max_ms).
C22_BackoffBounds ==
    (call.fn = "next_interval_ms" /\ call.result # NoneInt) =>
       /\ call.min_ms * (100 - call.jitter_pct) <= call.result * 100
       /\ call.result * 100 <= call.max_ms * (100 + call.jitter_pct)
       /\ call.u = 0 => call.result = Min(call.min_ms * (2 ^ call.attempt), call.max_ms)

\* ceil(x) for x in seconds, given in ms.
CeilS(ms) == 0 - ((0 - ms) \div MsPerS)

\* C23: a GET of a job returns retry_after_seconds =
\* clamp(ceil(next_poll_at - now), 1, 10) when next_poll_at is set and 10
\* when it is null, always an integer in 1..10.
C23_RetryAfter ==
    (call.fn = "get_job" /\ call.response # NoCall /\ call.response.status_code = 200) =>
       LET job == call.table[call.job_id] IN
       /\ call.response.retry_after_seconds \in 1..10
       /\ call.response.retry_after_seconds =
             IF job.next_poll_at = NoneInt THEN 10
             ELSE Max(1, Min(CeilS(job.next_poll_at - call.now), 10))

\* C24: a GET of a job answers 404 when no job has that id or the job is
\* another user's, and a 200 carries the status, result and error of a job
\* of the caller.
C24_OwnJobsOnly ==
    (call.fn = "get_job" /\ call.response # NoCall) =>
       IF call.job_id \in DOMAIN call.table
             /\ call.table[call.job_id].user_id = call.user_id
       THEN /\ call.response.status_code = 200
            /\ call.response.status = call.table[call.job_id].status
       ELSE call.response = [ status_code |-> 404, detail |-> "Job not found" ]

\* Another user's finished job was asked for and a 404 was the answer.
C24_Witness ==
    /\ call.fn = "get_job"
    /\ call.response # NoCall
    /\ call.response.status_code = 404
    /\ call.job_id \in DOMAIN call.table
    /\ call.table[call.job_id].user_id # call.user_id
    /\ call.table[call.job_id].status = SUCCEEDED

\* C25: a generate request with a missing or empty Idempotency-Key is
\* answered 400 with code MISSING_IDEMPOTENCY_KEY, one for an unknown option
\* is answered 404, and in both cases the request is over with no row written
\* and no tick enqueued.
C25_RejectedNoSideEffect ==
    [][\A r \in Requests :
         (reqs[r].pc = "idle" /\ reqs'[r].pc # "idle"
             /\ (reqs'[r].key \in MissingKeys \/ reqs'[r].option_id \notin OptionIds))
         => /\ reqs'[r].pc = "done"
            /\ reqs'[r].job_id = NoneInt
            /\ IF reqs'[r].key \in MissingKeys
               THEN /\ reqs'[r].status_code = 400
                    /\ reqs'[r].detail = "MISSING_IDEMPOTENCY_KEY"
               ELSE reqs'[r].status_code = 404
            /\ jobs' = jobs
            /\ queue' = queue]_vars

\* A request with an empty key and one for an unknown option were rejected,
\* and the table and the queue are as they were.
C25_Witness ==
    \E r1, r2 \in Requests :
       /\ reqs[r1].status_code = 400
       /\ reqs[r1].key = ""
       /\ reqs[r2].status_code = 404
       /\ reqs[r2].key \in IdempotencyKeys
       /\ reqs[r2].option_id \in UnknownOptionIds
       /\ jobs = <<>>
       /\ queue = EmptyBag

\* The taxonomy's retryable codes.
RetryableCodes == {"RATE_LIMITED", "PROVIDER_SERVER_ERROR", "NETWORK_ERROR"}

\* C26: StartGeneration and GetJobSet both raise the typed error of the
\* taxonomy: 429 RATE_LIMITED, 400 INVALID_PARAMS, 5xx PROVIDER_SERVER_ERROR,
\* 404 on GetJobSet JOB_NOT_FOUND, transport failure NETWORK_ERROR, 200
\* without a job-set id INVALID_RESPONSE; the error is retryable exactly
\* when its code is RATE_LIMITED, PROVIDER_SERVER_ERROR or NETWORK_ERROR.
C26_ErrorTaxonomy ==
    (call.fn \in {"start_generation", "get_job_set"} /\ call.result # NoCall) =>
       LET resp == call.resp
           e == call.result
           Is(code) == e.exc # "none" /\ e.code = code
       IN  /\ resp.transport = "error" => Is("NETWORK_ERROR")
           /\ (resp.transport = "ok" /\ resp.status_code = 429) => Is("RATE_LIMITED")
           /\ (resp.transport = "ok" /\ resp.status_code = 400) => Is("INVALID_PARAMS")
           /\ (resp.transport = "ok" /\ resp.status_code >= 500)
                 => Is("PROVIDER_SERVER_ERROR")
           /\ (resp.transport = "ok" /\ resp.status_code = 404
                 /\ call.fn = "get_job_set") => Is("JOB_NOT_FOUND")
           /\ (resp.transport = "ok" /\ resp.status_code = 200 /\ resp.body = "json"
                 /\ call.fn = "start_generation" /\ resp.job_set_id = NoneInt)
                 => Is("INVALID_RESPONSE")
           /\ e.exc \in {"ProviderError", "RateLimitError"}
                 => (e.retryable <=> e.code \in RetryableCodes)

\* C27: the normalized status of a job set is queued for queued|pending,
\* processing for processing|running|in_progress, completed for
\* completed|succeeded|success, failed for failed|error and queued for any
\* other or missing label; results is non-empty only with completed.
C27_NormalizedStatus ==
    (call.fn = "get_job_set" /\ call.result # NoCall /\ call.result.exc = "none") =>
       LET label == call.resp.data.status IN
       /\ call.result.status \in {"queued", "processing", "completed", "failed"}
       /\ label \in {"queued", "pending"} => call.result.status = "queued"
       /\ label \in {"processing", "running", "in_progress"}
             => call.result.status = "processing"
       /\ label \in {"completed", "succeeded", "success"}
             => call.result.status = "completed"
       /\ label \in {"failed", "error"} => call.result.status = "failed"
       /\ label \in {"weird", ""} => call.result.status = "queued"
       /\ call.result.results # <<>> => call.result.status = "completed"

\* An answer with an unknown label that carries results was normalized.
C27_Witness ==
    /\ call.fn = "get_job_set"
    /\ call.result # NoCall
    /\ call.resp.data.status = "weird"
    /\ call.resp.data.results # <<>>
    /\ call.result.status = "queued"
    /\ call.result.results = <<>>

\* C28: a tick on a PENDING job without a provider id commits
\* status = RUNNING, started_at = now, attempts + 1 and the provider's id
\* when StartGeneration succeeds; when StartGeneration raises a retryable
\* error the committed row still has status = PENDING, no started_at and the
\* attempts it had.
C28_StartOnlyOnSuccess ==
    [][\A w \in Workers :
          ( /\ Finishes(w)
            /\ workers[w].called = "start_generation"
            /\ workers[w].orig.status = PENDING
            /\ workers[w].orig.provider_job_set_id = NoneInt
            /\ jobs[workers[w].job_id] = workers[w].orig )
          => LET me == workers[w]
                 row == jobs'[me.job_id]
             IN  /\ me.e = "none"
                    => /\ row.status = RUNNING
                       /\ row.started_at = me.now
                       /\ row.attempts = me.orig.attempts + 1
                       /\ row.provider_job_set_id # NoneInt
                 /\ me.e \in RetryableCodes
                    => /\ row.status = PENDING
                       /\ row.started_at = NoneInt
                       /\ row.attempts = me.orig.attempts
                       /\ row.provider_job_set_id = NoneInt]_vars

\* C29: a tick that loads a PENDING or RUNNING job before its next_poll_at
\* (and before its timeout_at) calls neither StartGeneration nor GetJobSet,
\* changes nothing in the row and enqueues the tick again.
C29_NotBeforeNextPoll ==
    [][\A w \in Workers :
          /\ ( /\ Loads(w)
               /\ workers'[w].orig.status \in {PENDING, RUNNING}
               /\ workers'[w].orig.next_poll_at # NoneInt
               /\ workers'[w].now < workers'[w].orig.next_poll_at
               /\ workers'[w].now < workers'[w].orig.timeout_at )
             => /\ workers'[w].called = "none"
                /\ workers'[w].kind = "not_ready"
                /\ workers'[w].job = workers'[w].orig
                /\ nextSetId' = nextSetId
          /\ (Finishes(w) /\ workers[w].kind = "not_ready")
             => /\ jobs' = jobs
                /\ published' = published
                /\ Enqueued = 1
                /\ \E t \in BagToSet(queue') :
                      /\ t.job_id = workers[w].job_id
                      /\ CopiesIn(t, queue') = CopiesIn(t, queue) + 1]_vars

\* The worker as it is right after loading the row in this step.
Loaded(w) ==
    [IdleWorker EXCEPT !.job_id = workers'[w].job_id, !.now = workers'[w].now,
                       !.orig = workers'[w].orig, !.job = workers'[w].orig,
                       !.option = workers'[w].option]

\* C30: a tick whose poll of a RUNNING job returns completed holds for its
\* commit status = SUCCEEDED, finished_at = now, progress = 100 and the first
\* of the results as output_urls; one whose poll returns failed holds
\* status = FAILED, finished_at = now and last_error_code = PROVIDER_FAILED;
\* the commit writes that status (and the whole object when the row is as
\* loaded) and enqueues no tick.
C30_CompletedAndFailed ==
    [][\A w \in Workers :
          /\ ( /\ Loads(w)
               /\ workers'[w].orig.status = RUNNING
               /\ workers'[w].called = "get_job_set" )
             => \A resp \in PollResponses : \A u \in JitterDraws :
                   LET r == get_job_set(resp)
                       me == workers'[w]
                   IN  (r.exc = "none" /\ me = Decide(Loaded(w), resp, u))
                       => /\ r.status = "completed"
                             => /\ me.pc = "commit"
                                /\ me.job.status = SUCCEEDED
                                /\ me.job.finished_at = me.now
                                /\ me.job.progress = 100
                                /\ r.results # <<>>
                                      => me.job.output_urls = <<r.results[1]>>
                          /\ r.status = "failed"
                             => /\ me.pc = "commit"
                                /\ me.job.status = FAILED
                                /\ me.job.finished_at = me.now
                                /\ me.job.last_error_code = "PROVIDER_FAILED"
          /\ ( /\ Finishes(w)
               /\ workers[w].kind \in {"completed", "failed"}
               /\ workers[w].orig.status = RUNNING )
             => /\ jobs'[workers[w].job_id].status = workers[w].job.status
                /\ jobs[workers[w].job_id] = workers[w].orig
                      => jobs'[workers[w].job_id] = workers[w].job
                /\ Enqueued = 0]_vars

\* A job that a poll found completed with two results was committed
\* SUCCEEDED with the first of them, and no tick is left for it.
C30_Witness ==
    \E j \in DOMAIN jobs :
       /\ jobs[j].status = SUCCEEDED
       /\ jobs[j].progress = 100
       /\ jobs[j].output_urls = <<NormalizeResult(RawResult)>>
       /\ jobs[j].finished_at # NoneInt
       /\ \A t \in BagToSet(queue) : t.job_id # j
       /\ \A w \in Workers : workers[w].pc = "idle"

\* C31: a tick whose poll of a RUNNING job returns queued or processing
\* holds for its commit the loaded row with attempts one higher,
\* last_polled_at = now and next_poll_at = now + backoff(attempts), attempts
\* being the incremented value, and nothing else changed; its commit leaves
\* the row's status as it is, writes that object when the row is as loaded,
\* and enqueues one tick for the job.
C31_StillProcessing ==
    [][\A w \in Workers :
          /\ ( /\ Loads(w)
               /\ workers'[w].orig.status = RUNNING
               /\ workers'[w].called = "get_job_set" )
             => \A resp \in PollResponses : \A u \in JitterDraws :
                   LET r == get_job_set(resp)
                       me == workers'[w]
                   IN  ( /\ r.exc = "none"
                         /\ r.status \in {"queued", "processing"}
                         /\ me = Decide(Loaded(w), resp, u) )
                       => /\ me.pc = "commit"
                          /\ me.job =
                               [me.orig EXCEPT
                                  !.attempts = me.orig.attempts + 1,
                                  !.last_polled_at = me.now,
                                  !.next_poll_at = me.now +
                                      next_interval_ms(me.orig.attempts + 1,
                                          POLL_MIN_INTERVAL_MS, POLL_MAX_INTERVAL_MS,
                                          POLL_JITTER_PCT, u)]
          /\ (Finishes(w) /\ workers[w].kind = "still_processing")
             => LET j == workers[w].job_id
                IN  /\ jobs'[j].status = jobs[j].status
                    /\ jobs[j] = workers[w].orig
                          => (jobs'[j] = workers[w].job /\ jobs'[j].status = RUNNING)
                    /\ Enqueued = 1
                    /\ \E t \in BagToSet(queue') :
                          /\ t.job_id = j
                          /\ CopiesIn(t, queue') = CopiesIn(t, queue) + 1
                    /\ published' = published]_vars

\* A RUNNING job was polled, found still in progress, and its row and next
\* tick are committed.
C31_Witness ==
    \E j \in DOMAIN jobs :
       /\ jobs[j].status = RUNNING
       /\ jobs[j].provider_job_set_id # NoneInt
       /\ jobs[j].attempts = 2
       /\ jobs[j].last_polled_at # NoneInt
       /\ jobs[j].last_error_code = NoneStr
       /\ jobs[j].next_poll_at > jobs[j].last_polled_at
       /\ \E t \in BagToSet(queue) : t.job_id = j
       /\ \A w \in Workers : workers[w].pc = "idle"

\* ------------------------------------------------- external callers

\* A job id that no row of generation_jobs carries.
StrayJobId == MaxRequests + 1

\* An external caller sets a job that is still in progress to CANCELED (the
\* core itself never writes this status).
Cancel(j) ==
    /\ j \in DOMAIN jobs
    /\ jobs[j].status \notin TERMINAL_STATUSES
    /\ jobs' = [jobs EXCEPT ![j].status = CANCELED]
    /\ UNCHANGED <<call, sseVars, options, clock, reqs, queue, workers, published, nextSetId,
                   redelivered, fatal>>

\* poll_generation is sent with an id that has no row: one more of the extra
\* ticks.
StrayTick ==
    /\ ExtraTicks < MaxExtraTicks
    /\ redelivered' = redelivered + 1
    /\ queue' = Enqueue(queue, StrayJobId, 0)
    /\ UNCHANGED <<call, sseVars, options, clock, jobs, reqs, workers, published, nextSetId,
                   fatal>>

\* An external caller deletes a row of the options table.
DeleteOption(o) ==
    /\ o \in options
    /\ options' = options \ {o}
    /\ UNCHANGED <<call, sseVars, clock, jobs, reqs, queue, workers, published,
                   nextSetId, redelivered, fatal>>

\* The core with at-least-once ticks, an external canceller, stray ticks and
\* the deletion of options.
ExtNext ==
    \/ \E r \in Requests, o \in OptionIds, k \in {"K1"} :
          CreatesAlone(o, k) /\ GenerateBegin(r, o, k)
    \/ \E r \in Requests : CreateJobFlush(r)
    \/ \E r \in Requests : GenerateCommit(r)
    \/ \E r \in Requests : GenerateEnqueue(r)
    \/ \E w \in Workers, t \in Deliverable, again \in BOOLEAN :
          \E resp \in Answers(RowOf(t), clock) :
             \E u \in Draws(resp) : Load(w, t, again, resp, u)
    \/ \E w \in Workers : Commit(w)
    \/ \E w \in Workers : Return(w)
    \/ AdvanceClock
    \/ \E j \in DOMAIN jobs : Cancel(j)
    \/ StrayTick
    \/ \E o \in OptionIds : DeleteOption(o)

SpecExt == Init /\ [][ExtNext]_vars

\* C32: a tick that loads a job whose status is SUCCEEDED, FAILED, TIMEOUT or
\* CANCELED, or whose id has no row, makes no provider call and goes straight
\* to its return; returning, it updates no row, publishes no event and
\* enqueues no tick.
C32_TerminalTickNoOp ==
    [][\A w \in Workers :
          /\ ( /\ Loads(w)
               /\ workers'[w].orig.status \in {SUCCEEDED, FAILED, TIMEOUT, CANCELED, NoneStr} )
             => /\ workers'[w].pc = "return"
                /\ workers'[w].kind \in {"terminal", "missing"}
                /\ workers'[w].kind = "missing" <=> workers'[w].job_id \notin DOMAIN jobs
                /\ workers'[w].called = "none"
                /\ workers'[w].job = workers'[w].orig
                /\ nextSetId' = nextSetId
                /\ jobs' = jobs
                /\ published' = published
                /\ Enqueued <= 0
          /\ (Finishes(w) /\ workers[w].kind \in {"terminal", "missing"})
             => /\ jobs' = jobs
                /\ published' = published
                /\ queue' = queue
                /\ nextSetId' = nextSetId]_vars

\* One worker returning from a tick on a job an external caller canceled and
\* another from a tick whose id has no row.
C32_Witness ==
    \E w1 \in Workers, w2 \in Workers :
        /\ workers[w1].pc = "return"
        /\ workers[w1].kind = "terminal"
        /\ workers[w1].orig.status = CANCELED
        /\ workers[w2].pc = "return"
        /\ workers[w2].kind = "missing"
        /\ workers[w2].job_id = StrayJobId

\* C33: every step in which a worker takes a job's committed status from a
\* non-terminal one to SUCCEEDED, FAILED or TIMEOUT hands SSEBroker.publish
\* one job.updated event with that job's id and its new status on the
\* channel chat:<user_id>.
C33_TerminalPublishes ==
    [][\A j \in DOMAIN jobs :
          ( /\ jobs[j].status \notin TERMINAL_STATUSES
            /\ jobs'[j].status \in {SUCCEEDED, FAILED, TIMEOUT} )
          => CopiesIn(JobUpdated(j, jobs'[j]), published')
                = CopiesIn(JobUpdated(j, jobs'[j]), published) + 1]_vars

\* C34: for each job StartGeneration returns successfully at most once: a tick
\* gets a job-set id from start_generation only for a job whose row holds no
\* provider_job_set_id and for which no other tick holds a started job yet to
\* commit; and a provider_job_set_id stored in a row is never replaced.
C34_StartAtMostOnce ==
    [][/\ \A w \in Workers :
             (Loads(w) /\ workers'[w].kind = "started")
             => /\ jobs[workers'[w].job_id].provider_job_set_id = NoneInt
                /\ \A w2 \in Workers \ {w} :
                      ~( /\ workers[w2].job_id = workers'[w].job_id
                         /\ workers[w2].kind = "started" )
       /\ \A j \in DOMAIN jobs :
             jobs[j].provider_job_set_id # NoneInt
             => jobs'[j].provider_job_set_id = jobs[j].provider_job_set_id]_vars

\* C35: in every committed state a RUNNING job has a provider_job_set_id and
\* a PENDING job has none.
C35_RunningHasProviderId ==
    \A j \in DOMAIN jobs :
        /\ jobs[j].status = RUNNING => jobs[j].provider_job_set_id # NoneInt
        /\ jobs[j].status = PENDING => jobs[j].provider_job_set_id = NoneInt

\* C36: in every committed state a SUCCEEDED job has output_urls, a mapping
\* with type, min_url and raw_url.
C36_SucceededHasOutput ==
    \A j \in DOMAIN jobs :
        jobs[j].status = SUCCEEDED
        => /\ jobs[j].output_urls # <<>>
           /\ \A k \in 1..Len(jobs[j].output_urls) :
                 {"type", "min_url", "raw_url"} \subseteq DOMAIN jobs[j].output_urls[k]

\* C37: once a job's committed started_at is non-null, no later step changes
\* its value.
C37_StartedAtWrittenOnce ==
    [][\A j \in DOMAIN jobs :
          jobs[j].started_at # NoneInt => jobs'[j].started_at = jobs[j].started_at]_vars

\* min(min_ms * 2^n, max_ms): the backoff before jitter, with the configured
\* settings.
PreJitter(n) ==
    next_interval_ms(n, POLL_MIN_INTERVAL_MS, POLL_MAX_INTERVAL_MS, 0, 0)

\* C38: a tick whose provider call is answered RATE_LIMITED, with a the
\* attempts of its job object at that point, holds for its commit
\* next_poll_at = now + backoff(a+5) and a delay of at least
\* min(min_ms*2^(a+5), max_ms)*(1-jitter); on any other retryable error it
\* holds next_poll_at = now + backoff(a), whose value before jitter is at most
\* that of backoff(a+5); the commit enqueues the tick with that delay.
C38_RateLimitBackoff ==
    [][\A w \in Workers :
          /\ (Loads(w) /\ workers'[w].e \in RetryableCodes)
             => LET me == workers'[w]
                    a == me.job.attempts
                IN  /\ me.pc = "commit"
                    /\ me.job.attempts = me.orig.attempts + (IF me.called = "start_generation" THEN 1 ELSE 0)
                    /\ IF me.e = "RATE_LIMITED"
                       THEN /\ \E u \in JitterDraws :
                                  me.job.next_poll_at
                                     = me.now + next_interval_ms(a + 5, POLL_MIN_INTERVAL_MS,
                                                  POLL_MAX_INTERVAL_MS, POLL_JITTER_PCT, u)
                            /\ me.delay_seconds * MsPerS * 100
                                  >= PreJitter(a + 5) * (100 - POLL_JITTER_PCT)
                       ELSE /\ \E u \in JitterDraws :
                                  me.job.next_poll_at
                                     = me.now + next_interval_ms(a, POLL_MIN_INTERVAL_MS,
                                                  POLL_MAX_INTERVAL_MS, POLL_JITTER_PCT, u)
                            /\ PreJitter(a) <= PreJitter(a + 5)
          /\ (Finishes(w) /\ workers[w].kind = "rate_limited")
             => LET t == Tick(workers[w].job_id, workers[w].delay_seconds)
                IN  /\ Enqueued = 1
                    /\ CopiesIn(t, queue') = CopiesIn(t, queue) + 1]_vars

\* A job whose start was answered 429: the row carries RATE_LIMITED, a
\* next_poll_at at least 24 s after the first tick, and its next tick is
\* queued.
C38_Witness ==
    \E j \in DOMAIN jobs :
        /\ jobs[j].last_error_code = "RATE_LIMITED"
        /\ jobs[j].attempts = 1
        /\ jobs[j].next_poll_at * 100 >= PreJitter(6) * (100 - POLL_JITTER_PCT)
        /\ \E t \in BagToSet(queue) : t.job_id = j
        /\ \A w \in Workers : workers[w].pc = "idle"

\* The timeouts the model runs with.
ScaledSettings ==
    [T2I_TIMEOUT_S |-> T2I_TIMEOUT_S, I2V_TIMEOUT_S |-> I2V_TIMEOUT_S,
     T2V_TIMEOUT_S |-> T2V_TIMEOUT_S]

\* C39: a create_job that finds no existing job builds a row with
\* status = PENDING, attempts = 0, no provider_job_set_id, next_poll_at = now
\* and timeout_at = now + the timeout of the option's tool_type (as
\* configured: 180 s for text_to_image and speak, 1200 s for text_to_video and
\* image_to_video); the commit inserts that row, and a tick is enqueued, with
\* delay 0, only by a request whose job is committed.
C39_CreateThenEnqueue ==
    [][/\ \A tt \in {"text_to_image", "speak"} : timeouts(settings, tt) = 180
       /\ \A tt \in {"text_to_video", "image_to_video"} : timeouts(settings, tt) = 1200
       /\ \A r \in Requests :
             (reqs[r].pc = "idle" /\ reqs'[r].pc = "flush")
             => LET row == reqs'[r].row
                IN  /\ ExistingJobs(row.user_id, row.option_id, row.idempotency_key) = {}
                    /\ row = [NoRow EXCEPT
                                 !.user_id = get_current_user_id,
                                 !.option_id = reqs'[r].option_id,
                                 !.idempotency_key = reqs'[r].key,
                                 !.status = PENDING,
                                 !.next_poll_at = clock,
                                 !.timeout_at = clock + MsPerS *
                                    timeouts(ScaledSettings, Options[reqs'[r].option_id].tool_type)]
                    /\ row.attempts = 0
                    /\ row.provider_job_set_id = NoneInt
       /\ \A j \in DOMAIN jobs' \ DOMAIN jobs :
             /\ reqs[j].pc = "commit"
             /\ jobs'[j] = reqs[j].row
             /\ jobs'[j].status = PENDING
             /\ \A t \in BagToSet(queue') : t.job_id # j
       /\ \A r \in Requests :
             (reqs[r].pc = "enqueue" /\ reqs'[r].pc = "done")
             => /\ reqs[r].job_id \in DOMAIN jobs
                /\ queue' = queue (+) SetToBag({[job_id |-> reqs[r].job_id, eta |-> clock]})
       /\ \A t \in BagToSet(queue') : t.job_id \in DOMAIN jobs']_vars

\* A request answered 202 after the clock moved on while it was served: its
\* job is committed as built, PENDING with the deadline counted from its
\* creation, and its first tick is queued for immediate delivery.
C39_Witness ==
    \E r \in Requests :
        /\ reqs[r].pc = "done"
        /\ reqs[r].status_code = 202
        /\ reqs[r].job_id \in DOMAIN jobs
        /\ LET job == jobs[reqs[r].job_id]
           IN  /\ job.status = PENDING
               /\ job.attempts = 0
               /\ job.provider_job_set_id = NoneInt
               /\ job.next_poll_at < clock
               /\ job.timeout_at = job.next_poll_at + T2I_TIMEOUT_S * MsPerS
               /\ [job_id |-> reqs[r].job_id, eta |-> clock] \in BagToSet(queue)

\* C40: whenever a tick re-enqueues its job, the delay in whole seconds is
\* the ceiling of the time that remains until the job's next_poll_at, so the
\* tick is not due before next_poll_at.
C40_DelayIsCeiling ==
    [][\A w \in Workers :
          (Finishes(w) /\ Enqueued = 1)
          => LET me == workers[w]
             IN  /\ me.delay_seconds = CeilS(me.job.next_poll_at - me.now)
                 /\ me.now + me.delay_seconds * MsPerS >= me.job.next_poll_at]_vars

====
